---------------------------- MODULE Spec2Model ----------------------------
(***************************************************************************)
(* Sliding-window rate limiter (ktayal-tech/rate-limiter).                 *)
(*                                                                         *)
(* The store is a Redis server holding one LIST of request timestamps per  *)
(* rate-limit key (head = oldest, tail = newest).  Two LUA scripts work on *)
(* it: should-proceed.lua (prune, count, append) and                       *)
(* get-remaining-requests.lua (prune, count).  Timestamps are integers     *)
(* (epoch milliseconds); RPUSH stores them as decimal strings and tonumber *)
(* reads them back, which is exact for integers of this size, so a stored  *)
(* entry is modelled by its integer value.                                 *)
(***************************************************************************)
EXTENDS Integers, Sequences, FiniteSets, TLC

(***************************************************************************)
(* Bounds of the model.                                                    *)
(***************************************************************************)
\* requestLimitPerWindow of the limiter (ARGV[3] of the scripts)
Limit == 2
\* windowSizeInMS of the limiter (ARGV[2] of the scripts)
WindowSizeInMS == 2
\* the values of "now" (ARGV[1]) a caller may supply are 0..MaxNow
MaxNow == 3
\* number of script calls on the one key of a behaviour of Spec
MaxCalls == 4
\* number of script calls on the two keys of a behaviour of SpecKeys
MaxKeyCalls == 3

\* number of script executions of a behaviour of SpecAtomic
MaxAtomicCalls == 3
\* the values of Date.now() a limiter method may read are 0..MaxClock
MaxClock == 1

Times == 0..MaxNow
ClockTimes == 0..MaxClock
Keys == {"k1", "k2"}
Ops == {"admit", "remaining"}
\* request handlers (of any processes) that share the store
Handlers == {"h1", "h2", "h3"}
\* requests the rateLimiter middleware handles
Reqs == {"r1", "r2"}
\* Authorization header: none, a token jwt.verify rejects, a token of subject u1
Tokens == {"none", "bad", "valid"}
\* req.ip
Origins == {"A", "B"}

VARIABLES
    store,      \* Redis: key -> LIST of timestamps, an absent key is <<>>
    log,        \* history: the script calls made so far, in execution order
    pc,         \* per handler: the redis.call its running script is at, or "idle"
    hop,        \* per handler: the script it runs ("admit" or "remaining")
    hnow,       \* per handler: ARGV[1] of its script
    hhead,      \* per handler: the script's local head (-1 is nil)
    hsize,      \* per handler: the script's local currentSize
    storeUp,    \* the Redis client is connected and ready (client.isReady)
    allowIfStoreDown,   \* ALLOW_REQUESTS_IF_REDIS_DOWN of the limiter
    req,        \* per request: where rateLimiter is, req.user, req.ip, next() calls
    res,        \* per request: the response (sent, status, X-RateLimit-* headers)
    call,       \* per request and limiter method: the promise the method returned
    instance,   \* RedisClient.instance: 0 is undefined, n wraps the n-th client
    clientsCreated,     \* number of createClient calls made so far
    getInst     \* per handler: where its getInstance call is, and its result

engineVars == <<store, log>>
handlerVars == <<pc, hop, hnow, hhead, hsize>>
middlewareVars == <<storeUp, allowIfStoreDown, req, res, call>>
clientVars == <<instance, clientsCreated, getInst>>
vars == <<store, log, pc, hop, hnow, hhead, hsize,
          storeUp, allowIfStoreDown, req, res, call,
          instance, clientsCreated, getInst>>

Max(a, b) == IF a >= b THEN a ELSE b

\* PruneHead with the age taken as head - now: no stored entry is ever older
\* than the window
PruneHead_AgeReversed(list, now, window) ==
    IF list # <<>> /\ (Head(list) - now) > window THEN <<>> ELSE list

\* PruneHead with "if" in place of "while": at most one LPOP per call
PruneHead_OnlyOnce(list, now, window) ==
    IF list # <<>> /\ (now - Head(list)) > window THEN Tail(list) ELSE list

(***************************************************************************)
(* The prune loop both scripts start with: while the head exists and       *)
(* (now - head) > window, LPOP it.                                        *)
(***************************************************************************)
RECURSIVE PruneHead(_, _, _)
PruneHead(list, now, window) ==
    IF list = <<>>
    THEN list
    ELSE IF (now - Head(list)) > window
         THEN PruneHead(Tail(list), now, window)
         ELSE list

\* should-proceed.lua with the limit test written "<=" in place of "<"
ShouldProceedScript_AdmitsAtLimit(list, now, window, limit) ==
    LET pruned == PruneHead(list, now, window)
        currentSize == Len(pruned)
    IN  IF currentSize <= limit
        THEN [list |-> Append(pruned, now), ret |-> 1, currentSize |-> currentSize]
        ELSE [list |-> pruned, ret |-> 0, currentSize |-> currentSize]

\* should-proceed.lua taking LLEN before the prune loop
ShouldProceedScript_CountsBeforePrune(list, now, window, limit) ==
    LET pruned == PruneHead(list, now, window)
        currentSize == Len(list)
    IN  IF currentSize < limit
        THEN [list |-> Append(pruned, now), ret |-> 1, currentSize |-> currentSize]
        ELSE [list |-> pruned, ret |-> 0, currentSize |-> currentSize]

\* should-proceed.lua without its RPUSH: an admitted request is not recorded
ShouldProceedScript_NoPush(list, now, window, limit) ==
    LET pruned == PruneHead(list, now, window)
        currentSize == Len(pruned)
    IN  IF currentSize < limit
        THEN [list |-> pruned, ret |-> 1, currentSize |-> currentSize]
        ELSE [list |-> pruned, ret |-> 0, currentSize |-> currentSize]

(***************************************************************************)
(* should-proceed.lua: the list it leaves, the value it returns and the    *)
(* value of its local currentSize (LLEN after the prune loop).             *)
(***************************************************************************)
ShouldProceedScript(list, now, window, limit) ==
    LET pruned == PruneHead(list, now, window)
        currentSize == Len(pruned)
    IN  IF currentSize < limit
        THEN [list |-> Append(pruned, now), ret |-> 1, currentSize |-> currentSize]
        ELSE [list |-> pruned, ret |-> 0, currentSize |-> currentSize]

\* get-remaining-requests.lua with the age test written ">=": an entry
\* exactly one window old is pruned
GetRemainingScript_PrunesAtBoundary(list, now, window, limit) ==
    LET pruned == PruneHead(list, now, window - 1)
        currentSize == Len(pruned)
        remaining == Max(limit - currentSize, 0)
    IN  [list |-> pruned, ret |-> remaining, currentSize |-> currentSize]

\* get-remaining-requests.lua with the RPUSH of should-proceed.lua left in
GetRemainingScript_Appends(list, now, window, limit) ==
    LET pruned == PruneHead(list, now, window)
        currentSize == Len(pruned)
        remaining == Max(limit - currentSize, 0)
    IN  [list |-> Append(pruned, now), ret |-> remaining, currentSize |-> currentSize]

\* get-remaining-requests.lua taking LLEN before the prune loop
GetRemainingScript_CountsBeforePrune(list, now, window, limit) ==
    LET pruned == PruneHead(list, now, window)
        currentSize == Len(list)
        remaining == Max(limit - currentSize, 0)
    IN  [list |-> pruned, ret |-> remaining, currentSize |-> currentSize]

(***************************************************************************)
(* get-remaining-requests.lua.                                             *)
(***************************************************************************)
GetRemainingScript(list, now, window, limit) ==
    LET pruned == PruneHead(list, now, window)
        currentSize == Len(pruned)
        remaining == Max(limit - currentSize, 0)
    IN  [list |-> pruned, ret |-> remaining, currentSize |-> currentSize]

\* a script that ignores KEYS[1] and writes the LIST of every key
WriteKey_EveryKey(st, key, list) == [k \in DOMAIN st |-> list]

\* The effect of a script on the store: only the LIST at KEYS[1] is written.
WriteKey(st, key, list) == [st EXCEPT ![key] = list]

\* EVALSHA of one of the two scripts with KEYS = {key}, ARGV = {now, window, limit}
RunScript(op, list, now) ==
    IF op = "admit"
    THEN ShouldProceedScript(list, now, WindowSizeInMS, Limit)
    ELSE GetRemainingScript(list, now, WindowSizeInMS, Limit)

Call(key, op, now, bound) ==
    /\ Len(log) < bound
    /\ LET r == RunScript(op, store[key], now)
       IN  /\ store' = WriteKey(store, key, r.list)
           /\ log' = Append(log, [key |-> key, op |-> op, now |-> now,
                                   ret |-> r.ret, size |-> r.currentSize])
    /\ UNCHANGED <<handlerVars, middlewareVars, clientVars>>

HandlersIdle ==
    /\ pc = [h \in Handlers |-> "idle"]
    /\ hop = [h \in Handlers |-> "admit"]
    /\ hnow = [h \in Handlers |-> 0]
    /\ hhead = [h \in Handlers |-> -1]
    /\ hsize = [h \in Handlers |-> 0]

NewReq == [pc |-> "new", token |-> "none", ip |-> "A", user |-> "undefined",
           key |-> "none", nextCalls |-> 0, threw |-> FALSE]
NewRes == [sent |-> FALSE, status |-> 0,
           limitHeader |-> "unset", remainingHeader |-> "unset"]
NoCall == [st |-> "none", now |-> 0, value |-> 0, path |-> "none", sawDown |-> FALSE]

NoRequests ==
    /\ req = [r \in Reqs |-> NewReq]
    /\ res = [r \in Reqs |-> NewRes]
    /\ call = [r \in Reqs |-> [op \in Ops |-> NoCall]]

\* no getInstance call was made yet: the static field is undefined
NoCaller == [pc |-> "idle", client |-> 0, result |-> 0, calls |-> 0]
NoClient ==
    /\ instance = 0
    /\ clientsCreated = 0
    /\ getInst = [h \in Handlers |-> NoCaller]

Init ==
    /\ store = [k \in Keys |-> <<>>]
    /\ log = <<>>
    /\ HandlersIdle
    /\ storeUp = TRUE
    /\ allowIfStoreDown = FALSE
    /\ NoRequests
    /\ NoClient

(***************************************************************************)
(* Spec: admission checks and remaining queries on one key, with arbitrary *)
(* caller-supplied values of now.                                          *)
(***************************************************************************)
Admit == \E now \in Times : Call("k1", "admit", now, MaxCalls)

Remaining == \E now \in Times : Call("k1", "remaining", now, MaxCalls)

Next == Admit \/ Remaining

Spec == Init /\ [][Next]_vars

(***************************************************************************)
(* SpecKeys: the same calls on two keys, interleaved in any order.         *)
(***************************************************************************)
AdmitKey == \E key \in Keys, now \in Times : Call(key, "admit", now, MaxKeyCalls)

RemainingKey == \E key \in Keys, now \in Times : Call(key, "remaining", now, MaxKeyCalls)

NextKeys == AdmitKey \/ RemainingKey

SpecKeys == Init /\ [][NextKeys]_vars

(***************************************************************************)
(* SpecAtomic: the scripts run redis.call by redis.call.  Several handlers *)
(* send EVALSHA for the same key, each with the now it read itself; the    *)
(* store executes a script only when no other script is executing (EVALSHA *)
(* runs a script as one atomic unit).                                      *)
(***************************************************************************)
AtomicKey == "k1"

\* the scripts' steps sent as separate commands: nothing holds a second one back
ScriptMayStart_Interleaved(h) == TRUE

\* EVALSHA: the store starts a script only when no script is executing
ScriptMayStart(h) == \A g \in Handlers : pc[g] = "idle"

\* the handler sends EVALSHA and the store starts executing the script
StartScript(h) ==
    /\ pc[h] = "idle"
    /\ Len(log) < MaxAtomicCalls
    /\ ScriptMayStart(h)
    /\ \E op \in Ops, now \in Times :
          /\ hop' = [hop EXCEPT ![h] = op]
          /\ hnow' = [hnow EXCEPT ![h] = now]
    /\ pc' = [pc EXCEPT ![h] = "lindex"]
    /\ UNCHANGED <<store, log, hhead, hsize, middlewareVars, clientVars>>

\* local head = redis.call('LINDEX', key, 0); break when nil or within window
Lindex(h) ==
    /\ pc[h] = "lindex"
    /\ LET list == store[AtomicKey]
           head == IF list = <<>> THEN -1 ELSE Head(list)
       IN  /\ hhead' = [hhead EXCEPT ![h] = head]
           /\ pc' = [pc EXCEPT ![h] =
                       IF head = -1 THEN "llen"
                       ELSE IF (hnow[h] - head) > WindowSizeInMS THEN "lpop"
                       ELSE "llen"]
    /\ UNCHANGED <<store, log, hop, hnow, hsize, middlewareVars, clientVars>>

\* redis.call('LPOP', key), then back to the head of the loop
Lpop(h) ==
    /\ pc[h] = "lpop"
    /\ store' = WriteKey(store, AtomicKey,
                     IF store[AtomicKey] = <<>> THEN <<>> ELSE Tail(store[AtomicKey]))
    /\ pc' = [pc EXCEPT ![h] = "lindex"]
    /\ UNCHANGED <<log, hop, hnow, hhead, hsize, middlewareVars, clientVars>>

\* the script returns: its result reaches the handler
Return(h, ret, size) ==
    /\ log' = Append(log, [key |-> AtomicKey, op |-> hop[h], now |-> hnow[h],
                            ret |-> ret, size |-> size])
    /\ pc' = [pc EXCEPT ![h] = "idle"]
    /\ hop' = [hop EXCEPT ![h] = "admit"]
    /\ hnow' = [hnow EXCEPT ![h] = 0]
    /\ hhead' = [hhead EXCEPT ![h] = -1]
    /\ hsize' = [hsize EXCEPT ![h] = 0]
    /\ UNCHANGED <<middlewareVars, clientVars>>

\* local currentSize = redis.call('LLEN', key); should-proceed.lua goes on to
\* RPUSH when currentSize < limit and returns 0 otherwise;
\* get-remaining-requests.lua returns math.max(limit - currentSize, 0)
Llen(h) ==
    /\ pc[h] = "llen"
    /\ LET currentSize == Len(store[AtomicKey])
       IN  IF hop[h] = "admit"
           THEN IF currentSize < Limit
                THEN /\ hsize' = [hsize EXCEPT ![h] = currentSize]
                     /\ pc' = [pc EXCEPT ![h] = "rpush"]
                     /\ UNCHANGED <<store, log, hop, hnow, hhead, middlewareVars, clientVars>>
                ELSE /\ Return(h, 0, currentSize)
                     /\ UNCHANGED store
           ELSE /\ Return(h, Max(Limit - currentSize, 0), currentSize)
                /\ UNCHANGED store

\* should-proceed.lua with LPUSH in place of RPUSH: the new entry goes to the head
Rpush_AtHead(h) ==
    /\ pc[h] = "rpush"
    /\ store' = WriteKey(store, AtomicKey, <<hnow[h]>> \o store[AtomicKey])
    /\ Return(h, 1, hsize[h])

\* redis.call('RPUSH', key, now); return 1
Rpush(h) ==
    /\ pc[h] = "rpush"
    /\ store' = WriteKey(store, AtomicKey, Append(store[AtomicKey], hnow[h]))
    /\ Return(h, 1, hsize[h])

NextAtomic ==
    \E h \in Handlers :
        StartScript(h) \/ Lindex(h) \/ Lpop(h) \/ Llen(h) \/ Rpush(h)

SpecAtomic == Init /\ [][NextAtomic]_vars

(***************************************************************************)
(* SpecMiddleware: the rateLimiter middleware, authenticateToken, and the  *)
(* limiter's methods.  The class SlidingWindowRateLimiter is not among the *)
(* sources; generateKey, shouldProceed and getRemainingRequestsQuota       *)
(* follow the README's "shouldProceed(key)" outline and the description of *)
(* the degraded mode.                                                      *)
(***************************************************************************)
\* authenticate-token: const isTokenBlackListed = false
IsTokenBlackListed == FALSE

\* jwt.verify: the decoded payload's id for a token that verifies
DecodedUserId(token) == "u1"

\* authenticateToken(req, res, next): the status of the response it sends
\* (0: none), the id of the req.user it sets, and its calls of next()
AuthenticateToken(token) ==
    IF token = "none"
    THEN [status |-> 401, user |-> "undefined", next |-> 0]
    ELSE IF ~IsTokenBlackListed
         THEN [status |-> 401, user |-> "undefined", next |-> 0]
         ELSE IF token = "bad"
              THEN [status |-> 403, user |-> "undefined", next |-> 0]
              ELSE [status |-> 0, user |-> DecodedUserId(token), next |-> 1]

\* generateKey(userId, ipAddress): the subject's key when there is a userId,
\* the origin's key otherwise, in two namespaces
GenerateKey(userId, ipAddress) ==
    IF userId # "undefined" THEN "user:" \o userId ELSE "ip:" \o ipAddress

RateLimitKeys ==
    {GenerateKey(u, ip) : u \in {"undefined", DecodedUserId("valid")}, ip \in Origins}

\* getRateLimit(): the configured limit, unchanged
GetRateLimit == Limit

\* the truth value "if (!v)" tests: of the values here only false is falsy,
\* a Promise object is truthy
JsTruthy(v) == v # "false"

\* a ping that reports the store ready whatever the state of the connection
Ping_AlwaysReady(isReady) == TRUE

\* RedisClient.ping(): this.client.isReady
Ping(isReady) == isReady

\* what a limiter method answers when the store is down or does not answer
DegradedResult(op, allow) ==
    IF op = "admit"
    THEN IF allow THEN 1 ELSE 0
    ELSE IF allow THEN Limit ELSE 0

\* rateLimiter up to "await authenticateToken(req, res, next)"
RateLimiterBegin(r) ==
    /\ req[r].pc = "new"
    /\ \E token \in Tokens, ip \in Origins :
          LET a == AuthenticateToken(token)
          IN  /\ req' = [req EXCEPT ![r] = [@ EXCEPT !.pc = "auth",
                                                     !.token = token,
                                                     !.ip = ip,
                                                     !.user = a.user,
                                                     !.nextCalls = a.next]]
              /\ res' = [res EXCEPT ![r] =
                            IF a.status # 0
                            THEN [@ EXCEPT !.sent = TRUE, !.status = a.status]
                            ELSE @]
    /\ UNCHANGED <<engineVars, handlerVars, clientVars, storeUp, allowIfStoreDown, call>>

\* rateLimiter after the await, to its end: generateKey; shouldProceed and
\* getRemainingRequestsQuota are called and their promises kept, not awaited;
\* res.header throws once a response was sent; "if (!isAllowed)" tests the
\* promise object
RateLimiterContinue(r) ==
    /\ req[r].pc = "auth"
    /\ LET userId == req[r].user
           rateLimitKey == GenerateKey(userId, req[r].ip)
           isAllowed == "[object Promise]"
           remainingRequests == "[object Promise]"
           rateLimit == GetRateLimit
       IN  /\ call' = [call EXCEPT ![r] =
                          [op \in Ops |-> [NoCall EXCEPT !.st = "started"]]]
           /\ IF res[r].sent
              THEN /\ req' = [req EXCEPT ![r] = [@ EXCEPT !.pc = "done",
                                                          !.key = rateLimitKey,
                                                          !.threw = TRUE]]
                   /\ UNCHANGED res
              ELSE IF ~JsTruthy(isAllowed)
                   THEN /\ res' = [res EXCEPT ![r] =
                                      [sent |-> TRUE, status |-> 429,
                                       limitHeader |-> ToString(rateLimit),
                                       remainingHeader |-> remainingRequests]]
                        /\ req' = [req EXCEPT ![r] = [@ EXCEPT !.pc = "done",
                                                               !.key = rateLimitKey]]
                   ELSE /\ res' = [res EXCEPT ![r] =
                                      [@ EXCEPT !.limitHeader = ToString(rateLimit),
                                                !.remainingHeader = remainingRequests]]
                        /\ req' = [req EXCEPT ![r] =
                                      [@ EXCEPT !.pc = "done",
                                                !.key = rateLimitKey,
                                                !.nextCalls = @ + 1]]
    /\ UNCHANGED <<engineVars, handlerVars, clientVars, storeUp, allowIfStoreDown>>

\* a settled promise: its value, how it was reached ("down": the store was
\* found down, "script": the store's answer, "timeout": the call was given up)
\* and whether the store was down when the method looked (history)
Resolved(value, path, sawDown) ==
    [st |-> "resolved", now |-> 0, value |-> value, path |-> path, sawDown |-> sawDown]

\* a limiter method gets the Redis instance and asks whether it is up: down,
\* it answers by the degraded-mode policy; up, it reads now and sends the script
LimiterCheckStore(r, op) ==
    /\ call[r][op].st = "started"
    /\ IF Ping(storeUp)
       THEN \E now \in ClockTimes :
               call' = [call EXCEPT ![r][op] =
                           [@ EXCEPT !.st = "sent", !.now = now, !.sawDown = ~storeUp]]
       ELSE call' = [call EXCEPT ![r][op] =
                        Resolved(DegradedResult(op, allowIfStoreDown), "down", ~storeUp)]
    /\ UNCHANGED <<engineVars, handlerVars, clientVars, storeUp, allowIfStoreDown, req, res>>

\* the store executes the script of a limiter method and answers
LimiterExecute(r, op) ==
    /\ call[r][op].st = "sent"
    /\ storeUp
    /\ LET key == req[r].key
           s == RunScript(op, store[key], call[r][op].now)
       IN  /\ store' = WriteKey(store, key, s.list)
           /\ call' = [call EXCEPT ![r][op] =
                          Resolved(s.ret, "script", call[r][op].sawDown)]
    /\ UNCHANGED <<log, handlerVars, clientVars, storeUp, allowIfStoreDown, req, res>>

\* a limiter without a timeout on its store calls
CallMayTimeOut_Never(r, op) == FALSE

\* a store call that has not returned is given up after a bounded time
CallMayTimeOut(r, op) == call[r][op].st = "sent"

\* the store call fails or does not return in time: degraded-mode policy
LimiterTimeout(r, op) ==
    /\ CallMayTimeOut(r, op)
    /\ call' = [call EXCEPT ![r][op] =
                   Resolved(DegradedResult(op, allowIfStoreDown), "timeout",
                            call[r][op].sawDown)]
    /\ UNCHANGED <<engineVars, handlerVars, clientVars, storeUp, allowIfStoreDown, req, res>>

StoreFails ==
    /\ storeUp
    /\ storeUp' = FALSE
    /\ UNCHANGED <<engineVars, handlerVars, clientVars, allowIfStoreDown, req, res, call>>

StoreRecovers ==
    /\ ~storeUp
    /\ storeUp' = TRUE
    /\ UNCHANGED <<engineVars, handlerVars, clientVars, allowIfStoreDown, req, res, call>>

InitMiddleware ==
    /\ store = [k \in RateLimitKeys |-> <<>>]
    /\ log = <<>>
    /\ HandlersIdle
    /\ storeUp \in BOOLEAN
    /\ allowIfStoreDown \in BOOLEAN
    /\ NoRequests
    /\ NoClient

NextMiddleware ==
    \/ \E r \in Reqs : RateLimiterBegin(r) \/ RateLimiterContinue(r)
    \/ \E r \in Reqs, op \in Ops :
          LimiterCheckStore(r, op) \/ LimiterExecute(r, op) \/ LimiterTimeout(r, op)
    \/ StoreFails
    \/ StoreRecovers

SpecMiddleware == InitMiddleware /\ [][NextMiddleware]_vars

(***************************************************************************)
(* SpecRequestFair: one request, its two limiter calls and the store that  *)
(* fails and recovers at will.  The event loop runs a limiter method that  *)
(* can go on, and the timer of a pending store call fires; nothing is      *)
(* assumed of the store.  (The calls of different requests meet only in    *)
(* the store's lists, which never hold a call back.)                       *)
(***************************************************************************)
NextRequest ==
    \/ RateLimiterBegin("r1")
    \/ RateLimiterContinue("r1")
    \/ \E op \in Ops :
          \/ LimiterCheckStore("r1", op)
          \/ LimiterExecute("r1", op)
          \/ LimiterTimeout("r1", op)
    \/ StoreFails
    \/ StoreRecovers

SpecRequestFair ==
    /\ InitMiddleware
    /\ [][NextRequest]_vars
    /\ \A op \in Ops :
          /\ WF_vars(LimiterCheckStore("r1", op))
          /\ WF_vars(LimiterTimeout("r1", op))

(***************************************************************************)
(* History operators over the log.                                         *)
(***************************************************************************)
Idx == 1..Len(log)

\* the calls that recorded a request of key k: admitted admission checks
AdmittedIdx(k) ==
    {i \in Idx : log[i].key = k /\ log[i].op = "admit" /\ log[i].ret = 1}

\* number of admitted requests of k whose timestamp lies in [lo, hi]
AdmittedIn(k, lo, hi) ==
    Cardinality({i \in AdmittedIdx(k) : lo <= log[i].now /\ log[i].now <= hi})

\* number of admitted requests of k inside the window at now
InWindowAt(k, now) ==
    Cardinality({i \in AdmittedIdx(k) : now - log[i].now <= WindowSizeInMS})

\* the values of now supplied for key k never decreased from call to call
NowNonDecreasing(k) ==
    \A i, j \in Idx :
        (i < j /\ log[i].key = k /\ log[j].key = k) => log[i].now <= log[j].now

\* the largest now supplied for key k so far (0 when k was never called)
LastNow(k) ==
    LET S == {log[i].now : i \in {j \in Idx : log[j].key = k}}
    IN  IF S = {} THEN 0 ELSE CHOOSE m \in S : \A x \in S : x <= m

\* an admission check that found currentSize = limit after pruning is rejected
TieRejects ==
    \A i \in Idx : (log[i].op = "admit" /\ log[i].size = Limit) => log[i].ret = 0

(***************************************************************************)
(* C1 (as stated): for arbitrary values of now, the number of admitted     *)
(* requests of a key whose timestamps fall inside any interval of length   *)
(* windowSizeMs never exceeds limit, and an admission check that finds     *)
(* currentSize = limit after pruning is rejected.                          *)
(***************************************************************************)
C1_AnyNow ==
    /\ \A k \in Keys, t \in Times : AdmittedIn(k, t, t + WindowSizeInMS) <= Limit
    /\ TieRejects

(***************************************************************************)
(* C1 (amended): when the values of now supplied for a key never decrease  *)
(* from call to call, the number of admitted requests of that key whose    *)
(* timestamps fall inside any interval of length windowSizeMs never        *)
(* exceeds limit; and for arbitrary values of now an admission check that  *)
(* finds currentSize = limit after pruning is rejected.                    *)
(***************************************************************************)
C1_NonDecreasingNow ==
    /\ \A k \in Keys :
          NowNonDecreasing(k) =>
              \A t \in Times : AdmittedIn(k, t, t + WindowSizeInMS) <= Limit
    /\ TieRejects

\* a key called with non-decreasing now holds limit admitted requests in one
\* window and a further admission check on it was rejected at the tie
C1_Witness ==
    \E k \in Keys, t \in Times, i \in Idx :
        /\ NowNonDecreasing(k)
        /\ AdmittedIn(k, t, t + WindowSizeInMS) = Limit
        /\ log[i].key = k /\ log[i].op = "admit"
        /\ log[i].size = Limit /\ log[i].ret = 0

(***************************************************************************)
(* More history operators: the calls of one key.                           *)
(***************************************************************************)
\* the calls on key k among the first n calls
CallsOf(k, n) == {i \in 1..n : log[i].key = k}

\* the first n calls hold only admission checks for key k (no remaining call)
OnlyAdmits(k, n) == \A i \in CallsOf(k, n) : log[i].op = "admit"

\* the values of now of the calls on k among the first n span less than window
SpanShorterThanWindow(k, n) ==
    \A i, j \in CallsOf(k, n) : log[i].now - log[j].now < WindowSizeInMS

(***************************************************************************)
(* C4: for a key whose record starts empty and a sequence of admission     *)
(* checks whose values of now all lie within a span shorter than           *)
(* windowSizeMs, the i-th check is admitted if and only if i <= limit.     *)
(***************************************************************************)
C4_FirstLimitAdmitted ==
    \A i \in Idx :
        LET k == log[i].key
        IN  (OnlyAdmits(k, i) /\ SpanShorterThanWindow(k, i)) =>
                (log[i].ret = 1 <=> Cardinality(CallsOf(k, i)) <= Limit)

\* limit + 1 admission checks of one key within the span: the first limit are
\* admitted and the last one is rejected
C4_Witness ==
    \E i \in Idx :
        LET k == log[i].key
        IN  /\ OnlyAdmits(k, i) /\ SpanShorterThanWindow(k, i)
            /\ Cardinality(CallsOf(k, i)) = Limit + 1
            /\ log[i].ret = 0
            /\ \A j \in CallsOf(k, i) : j # i => log[j].ret = 1

(***************************************************************************)
(* C5 (as stated): after the pruning pass of every call, every timestamp   *)
(* left in the key's sequence is within windowSizeMs of that call's now,   *)
(* whatever the order of the values of now.  (Every state but the initial  *)
(* one is the state right after the last call of the log; an entry that an *)
(* admitted check appends is its own now.)                                 *)
(***************************************************************************)
C5_AllWithinWindow ==
    log # <<>> =>
        LET c == log[Len(log)]
        IN  \A n \in 1..Len(store[c.key]) :
                c.now - store[c.key][n] <= WindowSizeInMS

(***************************************************************************)
(* C5 (amended): after the pruning pass of every call the entry at the     *)
(* head of the key's sequence is within windowSizeMs of that call's now;   *)
(* and when the values of now supplied for the key never decreased, every  *)
(* timestamp left in the sequence is within windowSizeMs of it and         *)
(* currentSize counted exactly the admitted requests inside the window.    *)
(***************************************************************************)
C5_HeadWithinWindow ==
    log # <<>> =>
        LET c == log[Len(log)]
            list == store[c.key]
        IN  /\ list # <<>> => c.now - Head(list) <= WindowSizeInMS
            /\ NowNonDecreasing(c.key) =>
                  /\ \A n \in 1..Len(list) : c.now - list[n] <= WindowSizeInMS
                  /\ c.size = Cardinality({i \in AdmittedIdx(c.key) :
                                 i < Len(log) /\ c.now - log[i].now <= WindowSizeInMS})

\* a call with non-decreasing now pruned two expired entries at once and left
\* the key's sequence without them
C5_Witness ==
    /\ log # <<>>
    /\ LET c == log[Len(log)]
       IN  /\ NowNonDecreasing(c.key)
           /\ Cardinality({i \in AdmittedIdx(c.key) :
                  i < Len(log) /\ c.now - log[i].now > WindowSizeInMS}) >= 2
           /\ c.size = 0

(***************************************************************************)
(* C6 (as stated): in every reachable state of a key and for every now,    *)
(* the value remaining returns plus the number of admitted requests of the *)
(* key inside the window at now equals limit.                              *)
(***************************************************************************)
C6_AccountingAnyNow ==
    \A k \in Keys, now \in Times :
        GetRemainingScript(store[k], now, WindowSizeInMS, Limit).ret
            + InWindowAt(k, now) = Limit

(***************************************************************************)
(* C6 (amended): when the values of now supplied for a key never decreased *)
(* and now is not before the last of them, the value remaining returns at  *)
(* now plus the number of admitted requests of the key inside the window   *)
(* at now equals limit.                                                    *)
(***************************************************************************)
C6_AccountingNonDecreasingNow ==
    \A k \in Keys, now \in Times :
        (NowNonDecreasing(k) /\ now >= LastNow(k)) =>
            GetRemainingScript(store[k], now, WindowSizeInMS, Limit).ret
                + InWindowAt(k, now) = Limit

\* a key called with non-decreasing now has an expired admitted request still
\* stored and one inside the window: remaining reports limit - 1
C6_Witness ==
    \E k \in Keys, now \in Times :
        /\ NowNonDecreasing(k) /\ now >= LastNow(k)
        /\ Len(store[k]) = 2
        /\ InWindowAt(k, now) = 1
        /\ GetRemainingScript(store[k], now, WindowSizeInMS, Limit).ret = Limit - 1

(***************************************************************************)
(* C7: isolation.  The sequence of a key and the outcome of every call on  *)
(* it are those of the calls on that key alone, replayed from an empty     *)
(* record: calls on other keys, wherever they are interleaved, change      *)
(* neither.                                                                *)
(***************************************************************************)
RECURSIVE ReplayKey(_, _)
ReplayKey(k, n) ==
    IF n = 0
    THEN <<>>
    ELSE IF log[n].key = k
         THEN RunScript(log[n].op, ReplayKey(k, n - 1), log[n].now).list
         ELSE ReplayKey(k, n - 1)

C7_Isolation ==
    /\ \A k \in Keys : store[k] = ReplayKey(k, Len(log))
    /\ \A i \in Idx :
          log[i].ret = RunScript(log[i].op, ReplayKey(log[i].key, i - 1), log[i].now).ret

\* a call on one key ran between two calls on another key whose record is
\* not empty
C7_Witness ==
    \E i, j, l \in Idx :
        /\ i < j /\ j < l
        /\ log[i].key = log[l].key /\ log[j].key # log[i].key
        /\ log[i].ret = 1 /\ log[j].op = "admit" /\ log[j].ret = 1
        /\ store[log[i].key] # <<>> /\ store[log[j].key] # <<>>
        /\ store[log[i].key] # store[log[j].key]

(***************************************************************************)
(* C2: the prune, count and append steps of one admission check never      *)
(* interleave with those of another check on the same key, and the         *)
(* decisions are strictly serialized: the record and every result are      *)
(* those of the scripts executed one after the other, as indivisible       *)
(* units, in the order in which they returned; a handler that counted      *)
(* currentSize < limit appends to the very list it counted, so no two      *)
(* checks are admitted past the limit.                                     *)
(***************************************************************************)
C2_Serialized ==
    /\ Cardinality({h \in Handlers : pc[h] # "idle"}) <= 1
    /\ \A h \in Handlers :
          pc[h] = "rpush" => (Len(store[AtomicKey]) = hsize[h] /\ hsize[h] < Limit)
    /\ (\A h \in Handlers : pc[h] = "idle") =>
          store[AtomicKey] = ReplayKey(AtomicKey, Len(log))
    /\ \A i \in Idx :
          LET r == RunScript(log[i].op, ReplayKey(log[i].key, i - 1), log[i].now)
          IN  log[i].ret = r.ret /\ log[i].size = r.currentSize
    /\ Len(store[AtomicKey]) <= Limit

\* a handler counted currentSize = limit - 1 and is about to append its now to
\* a record that holds the entries of earlier admitted checks
C2_Witness ==
    \E h \in Handlers :
        /\ pc[h] = "rpush" /\ hsize[h] = Limit - 1
        /\ Len(store[AtomicKey]) = Limit - 1
        /\ Cardinality(AdmittedIdx(AtomicKey)) >= Limit - 1
        /\ Len(log) >= Limit - 1

C3_DecisionRoutesRequest ==
    \A r \in Reqs :
        /\ req[r].pc = "done" => call[r]["admit"].st = "resolved"
        /\ (req[r].pc = "done" /\ call[r]["admit"].st = "resolved") =>
              /\ call[r]["admit"].value = 0 =>
                    (res[r].status = 429 /\ req[r].nextCalls = 0)
              /\ call[r]["admit"].value = 1 =>
                    (res[r].status # 429 /\ req[r].nextCalls >= 1)

\* what the limiter methods of a request that found the store down answered
DegradedAnswers ==
    \A r \in Reqs :
        /\ (call[r]["admit"].st = "resolved" /\ call[r]["admit"].sawDown) =>
              /\ call[r]["admit"].path = "down"
              /\ call[r]["admit"].value = 1 <=> allowIfStoreDown
              /\ call[r]["admit"].value = 0 <=> ~allowIfStoreDown
        /\ (call[r]["remaining"].st = "resolved" /\ call[r]["remaining"].sawDown) =>
              /\ call[r]["remaining"].path = "down"
              /\ allowIfStoreDown => call[r]["remaining"].value = Limit

\* a step in which a call is answered without the store's answer writes no list
DegradedLeavesStore ==
    \A r \in Reqs, op \in Ops :
        (call[r][op].st # "resolved" /\ call'[r][op].st = "resolved"
            /\ call'[r][op].path # "script") => store' = store

C10_KeyBySubjectElseOrigin ==
    \A r1, r2 \in Reqs :
        (req[r1].pc = "done" /\ req[r2].pc = "done" /\ req[r1].ip # req[r2].ip) =>
            /\ (req[r1].token = "valid" /\ req[r2].token = "valid") =>
                  req[r1].key = req[r2].key
            /\ (req[r1].token # "valid" /\ req[r2].token # "valid") =>
                  req[r1].key # req[r2].key

(***************************************************************************)
(* C11: a request whose authentication is missing, invalid or failing is   *)
(* not aborted by rateLimiter: the authentication step sends no response   *)
(* of its own for it, the request is limited against the key of its origin *)
(* address, and it ends in exactly one outcome: next() called once and no  *)
(* response sent by the middleware, or one 429 response and no next().     *)
(***************************************************************************)
C11_AuthFailureFallsBack ==
    \A r \in Reqs :
        (req[r].pc \in {"auth", "done"} /\ req[r].token # "valid") =>
            /\ res[r].status \notin {401, 403}
            /\ req[r].pc = "done" =>
                  /\ req[r].key = GenerateKey("undefined", req[r].ip)
                  /\ ~req[r].threw
                  /\ \/ req[r].nextCalls = 1 /\ ~res[r].sent
                     \/ req[r].nextCalls = 0 /\ res[r].sent /\ res[r].status = 429

(***************************************************************************)
(* C12: the X-RateLimit-Remaining header of a finished request carries the *)
(* non-negative integer that getRemainingRequestsQuota returned, and that  *)
(* value was computed before the request's own admission decision: the     *)
(* remaining call has resolved by the time the shouldProceed call reaches  *)
(* the store.                                                              *)
(***************************************************************************)
C12_RemainingHeaderBeforeAdmission ==
    \A r \in Reqs :
        /\ req[r].pc = "done" =>
              /\ res[r].remainingHeader \in {ToString(n) : n \in 0..Limit}
              /\ call[r]["remaining"].st = "resolved" =>
                    res[r].remainingHeader = ToString(call[r]["remaining"].value)
        /\ call[r]["admit"].st \in {"sent", "resolved"} =>
              call[r]["remaining"].st = "resolved"

\* a is b with zero or more entries removed from its head
IsSuffix(a, b) == \E i \in 0..Len(b) : a = SubSeq(b, i + 1, Len(b))

(***************************************************************************)
(* C13: a remaining call never appends: the LIST of its key after the call *)
(* is a suffix of the LIST before it, no other key changes, and the value  *)
(* returned is max(limit - length of that suffix, 0), never negative.      *)
(***************************************************************************)
C13_RemainingNeverAppends ==
    [][ (Len(log') = Len(log) + 1 /\ log'[Len(log')].op = "remaining") =>
            LET e == log'[Len(log')]
            IN  /\ IsSuffix(store'[e.key], store[e.key])
                /\ \A k \in DOMAIN store \ {e.key} : store'[k] = store[k]
                /\ e.ret = Max(Limit - Len(store'[e.key]), 0)
                /\ e.ret >= 0 ]_vars

\* a remaining call has just pruned the entry the admit call before it
\* appended and reported the whole limit
C13_Witness ==
    /\ Len(log) >= 2
    /\ log[Len(log)].op = "remaining"
    /\ log[Len(log)].size = 0 /\ log[Len(log)].ret = Limit
    /\ log[Len(log) - 1].op = "admit" /\ log[Len(log) - 1].ret = 1
    /\ store["k1"] = <<>>

(***************************************************************************)
(* SpecExample: the scripts run with limit 3 and a window of 1000 ms on    *)
(* one key that starts empty.  The admission checks are made at the times  *)
(* of ExampleTimes, in order; between two of them remaining queries are    *)
(* made at the time of the check before or of the check to come.           *)
(***************************************************************************)
ExampleConfig == [limit |-> 3, windowSizeMs |-> 1000]
ExampleTimes == <<0, 100, 200, 300, 1101>>
\* remaining queries between two admission checks
MaxExampleQueries == 1

\* admission checks made so far
ExampleAdmits == Cardinality({i \in 1..Len(log) : log[i].op = "admit"})

\* remaining queries made since the last admission check
RECURSIVE TrailingQueries(_)
TrailingQueries(n) ==
    IF n = 0 \/ log[n].op = "admit" THEN 0 ELSE 1 + TrailingQueries(n - 1)

ExampleLastNow == IF log = <<>> THEN 0 ELSE log[Len(log)].now

ExampleRun(r, op, now) ==
    /\ store' = WriteKey(store, "k1", r.list)
    /\ log' = Append(log, [key |-> "k1", op |-> op, now |-> now,
                            ret |-> r.ret, size |-> r.currentSize])
    /\ UNCHANGED <<handlerVars, middlewareVars, clientVars>>

ExampleAdmit ==
    /\ ExampleAdmits < Len(ExampleTimes)
    /\ LET now == ExampleTimes[ExampleAdmits + 1]
       IN  ExampleRun(ShouldProceedScript(store["k1"], now,
                                          ExampleConfig.windowSizeMs,
                                          ExampleConfig.limit), "admit", now)

ExampleRemaining ==
    /\ TrailingQueries(Len(log)) < MaxExampleQueries
    /\ \E j \in {ExampleAdmits, ExampleAdmits + 1} \cap DOMAIN ExampleTimes :
          LET now == ExampleTimes[j]
          IN  /\ now >= ExampleLastNow
              /\ ExampleRun(GetRemainingScript(store["k1"], now,
                                               ExampleConfig.windowSizeMs,
                                               ExampleConfig.limit), "remaining", now)

NextExample == ExampleAdmit \/ ExampleRemaining

SpecExample == Init /\ [][NextExample]_vars

\* admission checks among the first n calls
AdmitsBefore(n) == Cardinality({i \in 1..(n - 1) : log[i].op = "admit"})

\* the decisions of the five admission checks
ExampleDecisions ==
    \A n \in 1..Len(log) :
        log[n].op = "admit" =>
            log[n].ret = (IF log[n].now = 300 THEN 0 ELSE 1)

\* remaining queried before the checks at 0, 100, 200 and 300
ExampleRemainingBefore ==
    \A n \in 1..Len(log) : \A j \in 1..4 :
        (log[n].op = "remaining" /\ AdmitsBefore(n) = j - 1
            /\ log[n].now = ExampleTimes[j]) =>
                log[n].ret = 4 - j

\* C14 as stated: after the check at 1101 remaining reports 2
C14_ExampleAsStated ==
    /\ ExampleDecisions
    /\ ExampleRemainingBefore
    /\ \A n \in 1..Len(log) :
          (log[n].op = "remaining" /\ AdmitsBefore(n) = 5) => log[n].ret = 2

(***************************************************************************)
(* C14: with limit 3 and a window of 1000 ms on an empty key, the checks   *)
(* at 0, 100 and 200 are admitted, remaining queried before the checks at  *)
(* 0, 100, 200 and 300 reports 3, 2, 1 and 0, the check at 300 is          *)
(* rejected, the check at 1101 is admitted, and remaining queried right    *)
(* after it reports 1: at 1101 the entries 0 and 100 are both older than   *)
(* the window, the LIST is then <<200, 1101>>.                             *)
(***************************************************************************)
C14_Example ==
    /\ ExampleDecisions
    /\ ExampleRemainingBefore
    /\ \A n \in 1..Len(log) :
          (log[n].op = "remaining" /\ AdmitsBefore(n) = 5) =>
              /\ log[n].ret = 1
              /\ store["k1"] = <<200, 1101>>

\* the five checks were made, with a remaining query before the check at
\* 300 and one after the check at 1101
C14_Witness ==
    /\ ExampleAdmits = 5
    /\ log[Len(log)].op = "remaining"
    /\ \E n \in 1..Len(log) :
          log[n].op = "remaining" /\ log[n].now = 300 /\ AdmitsBefore(n) = 3

(***************************************************************************)
(* C15: a rejected admit call performs no mutation: the store after the    *)
(* call is the store before it, so a rejecting call has pruned no entry.   *)
(***************************************************************************)
C15_RejectLeavesStore ==
    [][ (Len(log') = Len(log) + 1 /\ log'[Len(log')].op = "admit"
            /\ log'[Len(log')].ret = 0) => store' = store ]_vars

\* an admit call was just rejected although its now lies beyond the window
\* of the tail entry: the entries at the head are not older than the window
C15_Witness ==
    /\ log # <<>>
    /\ log[Len(log)].op = "admit" /\ log[Len(log)].ret = 0
    /\ Len(store["k1"]) = Limit
    /\ log[Len(log)].now - store["k1"][Limit] > WindowSizeInMS

\* the LIST should-proceed.lua has after its prune loop, before any RPUSH
AdmitPruned(list, now) ==
    LET a == ShouldProceedScript(list, now, WindowSizeInMS, Limit)
    IN  IF a.ret = 1 THEN SubSeq(a.list, 1, Len(a.list) - 1) ELSE a.list

(***************************************************************************)
(* C16: the admit script and the remaining script prune alike, with the    *)
(* same strict boundary: for the LIST of every reachable state and every   *)
(* now both leave the same pruned LIST; a head entry exactly one window    *)
(* old is kept and counted, an older head entry is removed; remaining run  *)
(* immediately before admit with the same now changes neither admit's      *)
(* decision nor the final LIST; remaining returns limit minus the          *)
(* currentSize admit compares with limit.                                  *)
(***************************************************************************)
C16_SamePruneStep ==
    \A now \in Times :
        LET list == store["k1"]
            g == GetRemainingScript(list, now, WindowSizeInMS, Limit)
            a == ShouldProceedScript(list, now, WindowSizeInMS, Limit)
            ga == ShouldProceedScript(g.list, now, WindowSizeInMS, Limit)
        IN  /\ g.list = AdmitPruned(list, now)
            /\ g.currentSize = a.currentSize
            /\ g.ret = Limit - a.currentSize
            /\ ga.ret = a.ret /\ ga.list = a.list
            /\ (list # <<>> /\ now - Head(list) = WindowSizeInMS) =>
                  g.list = list /\ a.currentSize = Len(list)
            /\ (list # <<>> /\ now - Head(list) > WindowSizeInMS) =>
                  Len(g.list) < Len(list) /\ a.currentSize < Len(list)

\* a full LIST whose head is exactly one window old at some now, and is
\* older than the window at another
C16_Witness ==
    /\ Len(store["k1"]) = Limit
    /\ \E now \in Times : now - Head(store["k1"]) = WindowSizeInMS
    /\ \E now \in Times : now - Head(store["k1"]) > WindowSizeInMS

\* timestamps non-decreasing from head to tail
OldestFirst(list) ==
    \A i, j \in 1..Len(list) : i < j => list[i] <= list[j]

\* the now values of the first n calls that were admitted for key k, in the
\* order in which their scripts ran
RECURSIVE AdmittedNows(_, _)
AdmittedNows(k, n) ==
    IF n = 0
    THEN <<>>
    ELSE IF log[n].key = k /\ log[n].op = "admit" /\ log[n].ret = 1
         THEN Append(AdmittedNows(k, n - 1), log[n].now)
         ELSE AdmittedNows(k, n - 1)

\* C17 as stated: the LIST is ordered oldest-first whatever the order in
\* which the handlers' scripts reach the store
C17_OldestFirstAnyOrder == OldestFirst(store[AtomicKey])

(***************************************************************************)
(* C17: in every reachable state the LIST of a key holds the timestamps of *)
(* admitted checks in the order in which their scripts ran at the store:   *)
(* it is a suffix of the admitted now values in execution order; it is     *)
(* ordered oldest-first whenever the scripts ran in non-decreasing order   *)
(* of their now values.                                                    *)
(***************************************************************************)
C17_ExecutionOrder ==
    /\ IsSuffix(store[AtomicKey], AdmittedNows(AtomicKey, Len(log)))
    /\ NowNonDecreasing(AtomicKey) => OldestFirst(store[AtomicKey])

\* two handlers' checks with different now values were admitted in the
\* order of their now values and both entries are stored
C17_Witness ==
    /\ NowNonDecreasing(AtomicKey)
    /\ Len(store[AtomicKey]) = Limit
    /\ store[AtomicKey][1] < store[AtomicKey][Limit]

\* the smallest timestamp stored in a non-empty LIST
OldestStored(list) ==
    CHOOSE m \in {list[i] : i \in 1..Len(list)} :
        \A i \in 1..Len(list) : m <= list[i]

\* the largest timestamp stored in a non-empty LIST
NewestStored(list) ==
    CHOOSE m \in {list[i] : i \in 1..Len(list)} :
        \A i \in 1..Len(list) : list[i] <= m

\* C18 as stated: an admit call whose now exceeds the oldest stored
\* timestamp by more than the window is admitted
C18_RecoversPastOldestTimestamp ==
    \A now \in Times :
        LET list == store["k1"]
        IN  (list # <<>> /\ now - OldestStored(list) > WindowSizeInMS) =>
                ShouldProceedScript(list, now, WindowSizeInMS, Limit).ret = 1

(***************************************************************************)
(* C18: quota recovery: in every reachable state an admit call whose now   *)
(* exceeds the timestamp at the head of the LIST by more than the window   *)
(* is admitted (the head is the oldest timestamp when now never            *)
(* decreased); and no key stays rejected for ever: an admit call whose now *)
(* exceeds every stored timestamp by more than the window finds the LIST   *)
(* empty after pruning and is admitted.                                    *)
(***************************************************************************)
C18_RecoversPastHead ==
    LET list == store["k1"]
    IN  list # <<>> =>
            /\ \A now \in Times :
                  now - Head(list) > WindowSizeInMS =>
                      ShouldProceedScript(list, now, WindowSizeInMS, Limit).ret = 1
            /\ NowNonDecreasing("k1") => Head(list) = OldestStored(list)
            /\ LET a == ShouldProceedScript(list, NewestStored(list) + WindowSizeInMS + 1,
                                            WindowSizeInMS, Limit)
               IN  a.ret = 1 /\ a.currentSize = 0

\* the last call was rejected on a full LIST, and there is a later now at
\* which the head is older than the window
C18_Witness ==
    /\ log # <<>>
    /\ log[Len(log)].op = "admit" /\ log[Len(log)].ret = 0
    /\ Len(store["k1"]) = Limit
    /\ \E now \in Times :
          now > log[Len(log)].now /\ now - Head(store["k1"]) > WindowSizeInMS

(***************************************************************************)
(* SpecSingleton: RedisClient.getInstance called by several handlers of    *)
(* one process.  A call runs without interruption up to                    *)
(* "await client.connect()" and, once connect() has resolved, from there   *)
(* to its return.                                                          *)
(***************************************************************************)
\* getInstance calls one handler makes
MaxInstanceCalls == 2

\* getInstance() up to its await: with RedisClient.instance unset it creates
\* a client and waits for connect(); with it set it returns the instance
GetInstanceBegin(h) ==
    /\ getInst[h].pc \in {"idle", "done"}
    /\ getInst[h].calls < MaxInstanceCalls
    /\ IF instance = 0
       THEN /\ clientsCreated' = clientsCreated + 1
            /\ getInst' = [getInst EXCEPT ![h] =
                              [pc |-> "connecting", client |-> clientsCreated + 1,
                               result |-> 0, calls |-> @.calls + 1]]
            /\ UNCHANGED instance
       ELSE /\ getInst' = [getInst EXCEPT ![h] =
                              [pc |-> "done", client |-> 0,
                               result |-> instance, calls |-> @.calls + 1]]
            /\ UNCHANGED <<instance, clientsCreated>>
    /\ UNCHANGED <<engineVars, handlerVars, middlewareVars>>

\* connect() has resolved: RedisClient.instance = new RedisClient(client);
\* return RedisClient.instance
GetInstanceConnected(h) ==
    /\ getInst[h].pc = "connecting"
    /\ instance' = getInst[h].client
    /\ getInst' = [getInst EXCEPT ![h] =
                      [@ EXCEPT !.pc = "done", !.result = getInst[h].client]]
    /\ UNCHANGED <<clientsCreated, engineVars, handlerVars, middlewareVars>>

NextSingleton == \E h \in Handlers : GetInstanceBegin(h) \/ GetInstanceConnected(h)

SpecSingleton == Init /\ [][NextSingleton]_vars

(***************************************************************************)
(* C19: getInstance is a singleton under concurrency: whatever the number  *)
(* of calls, also of calls that start while the first is awaiting          *)
(* connect(), at most one client is created and connected, and all calls   *)
(* that have resolved resolved to the same RedisClient instance, the one   *)
(* the static field holds.                                                 *)
(***************************************************************************)
C19_Singleton ==
    /\ clientsCreated <= 1
    /\ \A h, g \in Handlers :
          (getInst[h].pc = "done" /\ getInst[g].pc = "done") =>
              getInst[h].result = getInst[g].result
    /\ \A h \in Handlers : getInst[h].pc = "done" => getInst[h].result = instance

(***************************************************************************)
(* C20: with one fixed limit the LIST of a key never holds more than limit *)
(* entries, in every reachable state, also between two steps of a script,  *)
(* whatever the order and the now values of the admit and remaining calls  *)
(* of the concurrent handlers; a handler about to append finds fewer than  *)
(* limit entries.                                                          *)
(***************************************************************************)
C20_LengthWithinLimit ==
    /\ \A k \in Keys : Len(store[k]) <= Limit
    /\ \A h \in Handlers : pc[h] = "rpush" => Len(store[AtomicKey]) < Limit

\* the LIST is full, its entries are not in the order of their timestamps,
\* and a further handler's admit script is at its LLEN
C20_Witness ==
    /\ Len(store[AtomicKey]) = Limit
    /\ ~OldestFirst(store[AtomicKey])
    /\ \E h \in Handlers : pc[h] = "llen" /\ hop[h] = "admit"

=============================================================================
